---- MODULE Spec2Model ----
(***************************************************************************)
(* Model of grammartec/src/chunkstore.rs: the ChunkStore (dedup set,       *)
(* occurrence index, tree collection, chunk counter), the chunk files it   *)
(* writes below <work_dir>/outputs/chunks, and its three queries.          *)
(*                                                                         *)
(* Node ids and tree indices are 0-based as in the source; sequences are   *)
(* 1-based, so At(s, i) reads element i of a Vec.                          *)
(***************************************************************************)
EXTENDS Integers, Sequences, FiniteSets, TLC

VARIABLES
    nts_to_chunks,     \* HashMap<NTermID, Vec<(usize, NodeID)>>
    seen_outputs,      \* HashSet<Vec<u8>>
    trees,             \* Vec<Tree>
    number_of_chunks,  \* usize
    files,             \* <work_dir>/outputs/chunks: chunk number -> contents
    written_for,       \* history: chunk number -> buffer its file was created for
    calls,             \* number of add_tree calls made so far
    failures,          \* number of add_tree calls that panicked so far
    last,              \* the last operation, its input and its outcome
    lock,              \* ChunkStoreWrapper::chunkstore, the RwLock around the store
    is_locked,         \* ChunkStoreWrapper::is_locked
    pc,                \* where each thread stands
    loc,               \* the locals of each thread's add_tree call
    create_log         \* history: the File::create calls that succeeded, in order

storeVars == <<nts_to_chunks, seen_outputs, trees, number_of_chunks>>
threadVars == <<lock, is_locked, pc, loc, create_log>>
vars == <<nts_to_chunks, seen_outputs, trees, number_of_chunks, files,
          written_for, calls, failures, last, lock, is_locked, pc, loc, create_log>>

\* ---------------------------------------------------------------- bounds
MaxCalls == 2
MaxFailures == 1
\* the most bytes that reach a file before its write_all fails
MaxWritten == 1
\* the threads that ingest a tree each
NumWorkers == 2

\* ------------------------------------------------------ program constants
MaxChunkNodes == 30
MinChunksForRead == 2

At(s, i) == s[i + 1]

\* ------------------------------------------------------- grammar context
\* The grammar of tests::chunk_store (A -> a B, B -> b C, C -> c) extended
\* with further productions per nonterminal, two of them unit productions.
T(bytes) == [nt |-> "", term |-> bytes]
N(nt) == [nt |-> nt, term |-> <<>>]

RuleIDs == {"A1", "A2", "B1", "B2", "C1", "C2", "C3"}

Rhs(r) ==
    CASE r = "A1" -> <<T(<<"a", " ">>), N("B")>>
      [] r = "A2" -> <<N("B")>>
      [] r = "B1" -> <<T(<<"b", " ">>), N("C")>>
      [] r = "B2" -> <<N("B")>>
      [] r = "C1" -> <<T(<<"c">>)>>
      [] r = "C2" -> <<T(<<"d">>)>>
      [] r = "C3" -> <<T(<<"e">>)>>

\* ctx.get_nt(rule) / rule.nonterm()
get_nt(r) ==
    CASE r \in {"A1", "A2"} -> "A"
      [] r \in {"B1", "B2"} -> "B"
      [] r \in {"C1", "C2", "C3"} -> "C"

RECURSIVE NumberOfNonterms(_)
NumberOfNonterms(items) ==
    IF items = <<>> THEN 0
    ELSE (IF Head(items).nt = "" THEN 0 ELSE 1) + NumberOfNonterms(Tail(items))

\* ------------------------------------------------------- derivation tree
\* A tree is its pre-order rule vector plus the per-node subtree sizes.
RECURSIVE SubtreeEnd(_, _), SkipChildren(_, _, _)
SkipChildren(rules, p, k) ==
    IF k = 0 THEN p ELSE SkipChildren(rules, SubtreeEnd(rules, p), k - 1)
\* 0-based index one past the subtree rooted at node i
SubtreeEnd(rules, i) ==
    SkipChildren(rules, i + 1, NumberOfNonterms(Rhs(At(rules, i))))

MkTree(rules) ==
    [rules |-> rules,
     sizes |-> [p \in 1..Len(rules) |-> SubtreeEnd(rules, p - 1) - (p - 1)]]

size(tree) == Len(tree.rules)
get_rule_id(tree, n) == At(tree.rules, n)
get_rule_nonterm(tree, n) == get_nt(At(tree.rules, n))

RECURSIVE unparse(_, _), UnparseItems(_, _, _)
UnparseItems(tree, items, p) ==
    IF items = <<>> THEN <<>>
    ELSE IF Head(items).nt = ""
         THEN Head(items).term \o UnparseItems(tree, Tail(items), p)
         ELSE unparse(tree, p)
                \o UnparseItems(tree, Tail(items), p + At(tree.sizes, p))
unparse(tree, n) == UnparseItems(tree, Rhs(At(tree.rules, n)), n + 1)

\* ------------------------------------------------------- offered trees
\* MaxChunkNodes unit nodes over B -> b C, C -> c: subtrees of 32, 31, 30, ... nodes
Chain == [p \in 1..MaxChunkNodes |-> "B2"] \o <<"B1", "C1">>

OfferedTrees ==
    { MkTree(<<"A1", "B1", "C1">>),
      MkTree(<<"B1", "C1">>),
      MkTree(<<"A2", "B1", "C2">>),
      MkTree(Chain) }

\* The tree each worker thread ingests: no two of them have a subtree with
\* the same bytes ("a b c", "b c", "c" / "b d", "d" / "b e", "e").
WorkerTree(w) ==
    CASE w = 1 -> MkTree(<<"A1", "B1", "C1">>)
      [] w = 2 -> MkTree(<<"A2", "B1", "C2">>)
      [] w = 3 -> MkTree(<<"B1", "C3">>)

\* tree.unparse(n, ctx, &mut buffer) for the offered trees, computed once
UnparseTable ==
    [t \in OfferedTrees \cup {WorkerTree(w) : w \in 1..3}
       |-> [p \in 1..size(t) |-> unparse(t, p - 1)]]
unparse_node_to_vec(tree, n) == At(UnparseTable[tree], n)

\* --------------------------------------------------------------- add_tree
EmptyMap == [k \in {} |-> <<>>]
Put(m, k, v) == [x \in DOMAIN m \cup {k} |-> IF x = k THEN v ELSE m[x]]

\* nts_to_chunks.entry(nt).or_insert_with(Vec::new).push(rec)
PushOccurrence(nts, nt, rec) ==
    Put(nts, nt, IF nt \in DOMAIN nts THEN Append(nts[nt], rec) ELSE <<rec>>)

\* tree.sizes[i] > 30  =>  continue
Oversized(tree, i) == At(tree.sizes, i) > MaxChunkNodes

\* a dedup key that tells the nonterminals apart
DedupKey_WithNonterm(tree, i, buffer) == <<get_rule_nonterm(tree, i)>> \o buffer

\* the key looked up in and inserted into seen_outputs: &buffer, buffer.clone()
DedupKey(tree, i, buffer) == buffer

\* a dedup test that never finds the buffer
Seen_Never(seen, buffer) == FALSE

\* self.seen_outputs.contains(&buffer)
Seen(seen, buffer) == buffer \in seen

\* a counter that is not advanced
NextNumber_Stuck(n) == n

\* self.number_of_chunks += 1
NextNumber(n) == n + 1

\* The outcome of the filesystem for one add_tree call: nothing fails, or
\* File::create fails at node `node`, or write_all fails at node `node`
\* after `written` bytes reached the file.
NoFail == [kind |-> "none", node |-> 0, written |-> 0]
FailChoices(nodes) ==
    {NoFail}
    \cup {[kind |-> "create", node |-> i, written |-> 0] : i \in nodes}
    \cup {[kind |-> "write", node |-> i, written |-> w] :
             i \in nodes, w \in 0..MaxWritten}

Prefix(buffer, w) == SubSeq(buffer, 1, w)

\* The for loop of add_tree from node i on; st is the store, the chunk
\* directory and the locals of the call.  A panic of expect() ends the loop
\* where it stands.
RECURSIVE AddTreeLoop(_, _, _, _)
AddTreeLoop(st, tree, i, f) ==
    IF i >= size(tree) THEN st
    ELSE IF Oversized(tree, i) THEN AddTreeLoop(st, tree, i + 1, f)
    ELSE LET buffer == unparse_node_to_vec(tree, i) IN
      IF Seen(st.seen_outputs, DedupKey(tree, i, buffer))
        THEN AddTreeLoop(st, tree, i + 1, f)
      ELSE
        LET n == st.number_of_chunks
            indexed == [st EXCEPT
                          !.seen_outputs = @ \cup {DedupKey(tree, i, buffer)},
                          !.nts_to_chunks =
                              PushOccurrence(@, get_rule_nonterm(tree, i), <<st.id, i>>),
                          !.novel = @ + 1]
            created == [indexed EXCEPT
                          !.files = Put(@, n, <<>>),
                          !.written_for = Put(@, n, buffer),
                          !.number_of_chunks = NextNumber(n)]
        IN IF f.kind = "create" /\ f.node = i
             THEN [indexed EXCEPT !.panicked = TRUE]
           ELSE IF f.kind = "write" /\ f.node = i /\ f.written < Len(buffer)
             THEN [created EXCEPT !.files = Put(@, n, Prefix(buffer, f.written)),
                                  !.panicked = TRUE]
           ELSE AddTreeLoop([created EXCEPT !.files = Put(@, n, buffer),
                                            !.contains_new_chunk = TRUE],
                            tree, i + 1, f)

\* trees after the call: pushed only when the loop ran to its end
Retain(st, tree) ==
    IF ~st.panicked /\ st.contains_new_chunk THEN Append(st.trees, tree) ELSE st.trees

NoTree == MkTree(<<>>)
NoLast ==
    [op |-> "new", tree |-> NoTree, rule |-> "", kind |-> "", tid |-> 0, nid |-> 0,
     bytes |-> <<>>, novel |-> 0, panicked |-> FALSE, opened |-> FALSE]

add_tree(tree, f) ==
    LET st0 == [nts_to_chunks |-> nts_to_chunks, seen_outputs |-> seen_outputs,
                trees |-> trees, number_of_chunks |-> number_of_chunks,
                files |-> files, written_for |-> written_for,
                id |-> Len(trees), contains_new_chunk |-> FALSE,
                novel |-> 0, panicked |-> FALSE]
    IN /\ calls < MaxCalls
       /\ \E st \in {AddTreeLoop(st0, tree, 0, f)} :
           /\ \/ f = NoFail /\ ~st.panicked
              \/ f /= NoFail /\ st.panicked /\ failures < MaxFailures
           /\ nts_to_chunks' = st.nts_to_chunks
           /\ seen_outputs' = st.seen_outputs
           /\ number_of_chunks' = st.number_of_chunks
           /\ files' = st.files
           /\ written_for' = st.written_for
           /\ trees' = Retain(st, tree)
           /\ calls' = calls + 1
           /\ failures' = IF st.panicked THEN failures + 1 ELSE failures
           /\ last' = [NoLast EXCEPT !.op = "add_tree", !.tree = tree,
                                     !.kind = IF st.panicked THEN "panic" ELSE "ok",
                                     !.novel = st.novel, !.panicked = st.panicked]

\* the nodes of tree at which a file is created when the call starts here
NovelNodes(tree) ==
    {i \in 0..(size(tree) - 1) :
        /\ ~Oversized(tree, i)
        /\ ~Seen(seen_outputs, DedupKey(tree, i, unparse_node_to_vec(tree, i)))}

AddTree ==
    \E tree \in OfferedTrees : \E f \in FailChoices(NovelNodes(tree)) : add_tree(tree, f)

\* ----------------------------------------------------- get_alternative_to
\* self.nts_to_chunks.get(&nt), an absent key read as the empty list
OccList(m, nt) == IF nt \in DOMAIN m THEN m[nt] ELSE <<>>

ValidOccurrence(ts, rec) ==
    /\ rec[1] < Len(ts)
    /\ rec[2] < size(At(ts, rec[1]))

\* a filter that lets every occurrence through
Relevant_Any(ts, rec, r) == TRUE

\* filter(|&&(tid, nid)| self.trees[tid].get_rule_id(nid) != r)
Relevant(ts, rec, r) == get_rule_id(At(ts, rec[1]), rec[2]) /= r

None == [kind |-> "none", tid |-> 0, nid |-> 0]
Panic == [kind |-> "panic", tid |-> 0, nid |-> 0]
Some(rec) == [kind |-> "some", tid |-> rec[1], nid |-> rec[2]]

\* The set of outcomes of get_alternative_to(r): choose() runs the filter
\* over the whole list, and indexing trees or a tree's rules out of bounds
\* panics.
get_alternative_to(r) ==
    IF get_nt(r) \notin DOMAIN nts_to_chunks THEN {None}
    ELSE LET vec == nts_to_chunks[get_nt(r)]
             recs == {vec[k] : k \in 1..Len(vec)}
         IN IF \E rec \in recs : ~ValidOccurrence(trees, rec) THEN {Panic}
            ELSE LET relevant == {rec \in recs : Relevant(trees, rec, r)}
                 IN IF relevant = {} THEN {None}
                    ELSE {Some(rec) : rec \in relevant}

\* a lookup through nts_to_chunks.entry(nt).or_default(), which leaves an
\* empty list behind for a nonterminal that had none
GetAlternativeTo_Entry ==
    \E r \in RuleIDs : \E res \in get_alternative_to(r) :
        /\ last' = [NoLast EXCEPT !.op = "get_alternative_to", !.rule = r,
                                  !.kind = res.kind, !.tid = res.tid, !.nid = res.nid]
        /\ nts_to_chunks' = Put(nts_to_chunks, get_nt(r), OccList(nts_to_chunks, get_nt(r)))
        /\ UNCHANGED <<seen_outputs, trees, number_of_chunks, files, written_for,
                       calls, failures>>

GetAlternativeTo ==
    \E r \in RuleIDs : \E res \in get_alternative_to(r) :
        /\ last' = [NoLast EXCEPT !.op = "get_alternative_to", !.rule = r,
                                  !.kind = res.kind, !.tid = res.tid, !.nid = res.nid]
        /\ UNCHANGED <<storeVars, files, written_for, calls, failures>>

\* ------------------------------------------------------------------ trees
Trees ==
    /\ last' = [NoLast EXCEPT !.op = "trees", !.kind = "ok", !.tid = Len(trees)]
    /\ UNCHANGED <<storeVars, files, written_for, calls, failures>>

\* -------------------------------------------------------------- get_chunk
\* an early return taken only by the empty store
TooFewChunks_One(n) == n < 1

\* self.number_of_chunks < 2
TooFewChunks(n) == n < MinChunksForRead

IoChoices == {"ok", "open_fails", "read_fails"}

\* a get_chunk that unwraps the results of File::open and read_to_end
get_chunk_Unwrap(io) ==
    IF number_of_chunks < MinChunksForRead
    THEN {[kind |-> "ok", bytes |-> <<>>, opened |-> FALSE, tid |-> 0]}
    ELSE {IF io /= "ok" \/ id \notin DOMAIN files
            THEN [kind |-> "panic", bytes |-> <<>>, opened |-> FALSE, tid |-> id]
          ELSE [kind |-> "ok", bytes |-> files[id], opened |-> TRUE, tid |-> id]
          : id \in 0..(number_of_chunks - 1)}

\* The outcomes of get_chunk: io says whether File::open and read_to_end
\* succeed for this call.
get_chunk(io) ==
    IF TooFewChunks(number_of_chunks)
    THEN {[kind |-> "ok", bytes |-> <<>>, opened |-> FALSE, tid |-> 0]}
    ELSE {IF io = "open_fails" \/ id \notin DOMAIN files
            THEN [kind |-> "err", bytes |-> <<>>, opened |-> FALSE, tid |-> id]
          ELSE IF io = "read_fails"
            THEN [kind |-> "err", bytes |-> <<>>, opened |-> TRUE, tid |-> id]
          ELSE [kind |-> "ok", bytes |-> files[id], opened |-> TRUE, tid |-> id]
          : id \in 0..(number_of_chunks - 1)}

GetChunk ==
    \E io \in IoChoices : \E res \in get_chunk(io) :
        /\ last' = [NoLast EXCEPT !.op = "get_chunk", !.kind = res.kind,
                                  !.bytes = res.bytes, !.opened = res.opened,
                                  !.tid = res.tid]
        /\ UNCHANGED <<storeVars, files, written_for, calls, failures>>

\* ---------------------------------------------------- ChunkStoreWrapper
\* Threads share one ChunkStoreWrapper.  A worker takes chunkstore.write()
\* and runs add_tree on its tree, one statement group at a time; a reader
\* takes chunkstore.read() and runs one query.  A panic under the write
\* guard poisons the RwLock; read() and write() on a poisoned lock hand the
\* guard out inside the error, and the caller either panics or goes on
\* with it.
Workers == 1..NumWorkers
\* one more thread queries the store
Readers == {NumWorkers + 1}
Threads == Workers \cup Readers

NoLocals ==
    [i |-> 0, id |-> 0, contains_new_chunk |-> FALSE, file |-> 0,
     n0 |-> 0, n1 |-> 0]

Released(l) == [l EXCEPT !.writer = 0]
Poisoned(l) == [l EXCEPT !.writer = 0, !.poisoned = TRUE]

\* a write() that does not wait for the store to be free
WriteLock_NoExclusion(w) ==
    /\ pc[w] = "idle"
    /\ lock' = [lock EXCEPT !.writer = w]
    /\ pc' = [pc EXCEPT ![w] = "loop"]
    /\ loc' = [loc EXCEPT ![w] = [NoLocals EXCEPT !.id = Len(trees),
                                                   !.n0 = number_of_chunks]]
    /\ last' = [NoLast EXCEPT !.op = "add_tree", !.tree = WorkerTree(w),
                              !.kind = "running"]
    /\ UNCHANGED <<storeVars, files, written_for, calls, failures,
                   is_locked, create_log>>

\* a write() that also waits for the flag to be clear
WriteLock_ChecksFlag(w) ==
    /\ pc[w] = "idle"
    /\ lock.writer = 0
    /\ lock.readers = {}
    /\ ~is_locked
    /\ lock' = [lock EXCEPT !.writer = w]
    /\ pc' = [pc EXCEPT ![w] = "loop"]
    /\ loc' = [loc EXCEPT ![w] = [NoLocals EXCEPT !.id = Len(trees),
                                                   !.n0 = number_of_chunks]]
    /\ last' = [NoLast EXCEPT !.op = "add_tree", !.tree = WorkerTree(w),
                              !.kind = "running"]
    /\ UNCHANGED <<storeVars, files, written_for, calls, failures,
                   is_locked, create_log>>

\* chunkstore.write(), then lines 70-72 of add_tree
WriteLock(w) ==
    /\ pc[w] = "idle"
    /\ lock.writer = 0
    /\ lock.readers = {}
    /\ lock' = [lock EXCEPT !.writer = w]
    /\ pc' = [pc EXCEPT ![w] = "loop"]
    /\ loc' = [loc EXCEPT ![w] = [NoLocals EXCEPT !.id = Len(trees),
                                                   !.n0 = number_of_chunks]]
    /\ last' = [NoLast EXCEPT !.op = "add_tree", !.tree = WorkerTree(w),
                              !.kind = "running"]
    /\ UNCHANGED <<storeVars, files, written_for, calls, failures,
                   is_locked, create_log>>

\* lines 73-80: an oversized node or a buffer that is in the dedup set
SkipNode(w) ==
    LET tree == WorkerTree(w)
        i == loc[w].i
    IN /\ pc[w] = "loop"
       /\ i < size(tree)
       /\ \/ Oversized(tree, i)
          \/ Seen(seen_outputs, DedupKey(tree, i, unparse_node_to_vec(tree, i)))
       /\ loc' = [loc EXCEPT ![w].i = i + 1]
       /\ UNCHANGED <<storeVars, files, written_for, calls, failures, last,
                      lock, is_locked, pc, create_log>>

\* the node at which worker w stands is novel
AtNovelNode(w) ==
    /\ pc[w] = "loop"
    /\ loc[w].i < size(WorkerTree(w))
    /\ ~Oversized(WorkerTree(w), loc[w].i)
    /\ ~Seen(seen_outputs,
             DedupKey(WorkerTree(w), loc[w].i,
                      unparse_node_to_vec(WorkerTree(w), loc[w].i)))

\* lines 81-90: dedup entry, occurrence record, File::create
CreateFile(w) ==
    LET tree == WorkerTree(w)
        i == loc[w].i
        buffer == unparse_node_to_vec(tree, i)
        n == number_of_chunks
    IN /\ AtNovelNode(w)
       /\ seen_outputs' = seen_outputs \cup {DedupKey(tree, i, buffer)}
       /\ nts_to_chunks' =
             PushOccurrence(nts_to_chunks, get_rule_nonterm(tree, i), <<loc[w].id, i>>)
       /\ files' = Put(files, n, <<>>)
       /\ written_for' = Put(written_for, n, buffer)
       /\ create_log' = Append(create_log, [file |-> n, thread |-> w, node |-> i])
       /\ loc' = [loc EXCEPT ![w].file = n]
       /\ pc' = [pc EXCEPT ![w] = "created"]
       /\ UNCHANGED <<trees, number_of_chunks, calls, failures, last, lock, is_locked>>

\* lines 81-90 when File::create fails: expect() panics under the write guard
CreateFails(w) ==
    LET tree == WorkerTree(w)
        i == loc[w].i
        buffer == unparse_node_to_vec(tree, i)
    IN /\ AtNovelNode(w)
       /\ failures < MaxFailures
       /\ seen_outputs' = seen_outputs \cup {DedupKey(tree, i, buffer)}
       /\ nts_to_chunks' =
             PushOccurrence(nts_to_chunks, get_rule_nonterm(tree, i), <<loc[w].id, i>>)
       /\ failures' = failures + 1
       /\ lock' = Poisoned(lock)
       /\ pc' = [pc EXCEPT ![w] = "dead"]
       /\ UNCHANGED <<trees, number_of_chunks, files, written_for, calls, last,
                      is_locked, loc, create_log>>

\* lines 91-93: the counter, write_all, contains_new_chunk
WriteChunk(w) ==
    LET tree == WorkerTree(w)
        i == loc[w].i
    IN /\ pc[w] = "created"
       /\ number_of_chunks' = NextNumber(number_of_chunks)
       /\ files' = Put(files, loc[w].file, unparse_node_to_vec(tree, i))
       /\ loc' = [loc EXCEPT ![w].i = i + 1, ![w].contains_new_chunk = TRUE]
       /\ pc' = [pc EXCEPT ![w] = "loop"]
       /\ UNCHANGED <<nts_to_chunks, seen_outputs, trees, written_for, calls,
                      failures, last, lock, is_locked, create_log>>

\* lines 91-92 when write_all fails: expect() panics under the write guard
WriteFails(w) ==
    LET buffer == unparse_node_to_vec(WorkerTree(w), loc[w].i)
    IN /\ pc[w] = "created"
       /\ failures < MaxFailures
       /\ \E written \in 0..MaxWritten :
             /\ written < Len(buffer)
             /\ files' = Put(files, loc[w].file, Prefix(buffer, written))
       /\ number_of_chunks' = NextNumber(number_of_chunks)
       /\ failures' = failures + 1
       /\ lock' = Poisoned(lock)
       /\ pc' = [pc EXCEPT ![w] = "dead"]
       /\ UNCHANGED <<nts_to_chunks, seen_outputs, trees, written_for, calls, last,
                      is_locked, loc, create_log>>

\* lines 96-99, then the write guard is dropped
Finish(w) ==
    /\ pc[w] = "loop"
    /\ loc[w].i >= size(WorkerTree(w))
    /\ trees' = IF loc[w].contains_new_chunk THEN Append(trees, WorkerTree(w)) ELSE trees
    /\ lock' = Released(lock)
    /\ loc' = [loc EXCEPT ![w].n1 = number_of_chunks]
    /\ pc' = [pc EXCEPT ![w] = "done"]
    /\ UNCHANGED <<nts_to_chunks, seen_outputs, number_of_chunks, files, written_for,
                   calls, failures, last, is_locked, create_log>>

\* chunkstore.read()
ReadLock(r) ==
    /\ pc[r] = "idle"
    /\ lock.writer = 0
    /\ lock' = [lock EXCEPT !.readers = @ \cup {r}]
    /\ pc' = [pc EXCEPT ![r] = "reading"]
    /\ UNCHANGED <<storeVars, files, written_for, calls, failures, last,
                   is_locked, loc, create_log>>

\* one query under the read guard, which is dropped afterwards; a panic of
\* get_alternative_to ends the thread
Query(r) ==
    /\ pc[r] = "reading"
    /\ GetAlternativeTo \/ Trees \/ GetChunk
    /\ lock' = [lock EXCEPT !.readers = @ \ {r}]
    /\ pc' = [pc EXCEPT ![r] = IF last'.kind = "panic" THEN "dead" ELSE "idle"]
    /\ UNCHANGED <<is_locked, loc, create_log>>

\* read() or write() returned a PoisonError and the caller unwraps it
PoisonPanic(t) ==
    /\ pc[t] = "idle"
    /\ lock.poisoned
    /\ lock.writer = 0
    /\ pc' = [pc EXCEPT ![t] = "dead"]
    /\ UNCHANGED <<storeVars, files, written_for, calls, failures, last,
                   lock, is_locked, loc, create_log>>

\* is_locked.store(..) by any thread, at any time
SetFlag(t) ==
    /\ pc[t] /= "dead"
    /\ is_locked' = ~is_locked
    /\ UNCHANGED <<storeVars, files, written_for, calls, failures, last,
                   lock, pc, loc, create_log>>

\* ------------------------------------------------------------------- spec
\* ChunkStore::new on a work directory whose outputs/chunks holds no file
Init ==
    /\ nts_to_chunks = EmptyMap
    /\ seen_outputs = {}
    /\ trees = <<>>
    /\ number_of_chunks = 0
    /\ files = EmptyMap
    /\ written_for = EmptyMap
    /\ calls = 0
    /\ failures = 0
    /\ last = NoLast
    /\ lock = [writer |-> 0, readers |-> {}, poisoned |-> FALSE]
    /\ is_locked = FALSE
    /\ pc = [t \in Threads |-> "idle"]
    /\ loc = [t \in Threads |-> NoLocals]
    /\ create_log = <<>>

\* one caller that owns the store
Next ==
    \/ AddTree /\ UNCHANGED threadVars
    \/ GetAlternativeTo /\ UNCHANGED threadVars
    \/ Trees /\ UNCHANGED threadVars
    \/ GetChunk /\ UNCHANGED threadVars

Spec == Init /\ [][Next]_vars

\* threads sharing the wrapper
NextConc ==
    \/ \E w \in Workers :
          \/ WriteLock(w)
          \/ SkipNode(w)
          \/ CreateFile(w)
          \/ CreateFails(w)
          \/ WriteChunk(w)
          \/ WriteFails(w)
          \/ Finish(w)
    \/ \E r \in Readers : ReadLock(r) \/ Query(r)
    \/ \E t \in Threads : PoisonPanic(t) \/ SetFlag(t)

SpecConc == Init /\ [][NextConc]_vars

\* ------------------------------------------------------ derived notions
NTerms == {"A", "B", "C"}
RECURSIVE SumLen(_, _)
SumLen(m, nts) ==
    IF nts = {} THEN 0
    ELSE LET nt == CHOOSE x \in nts : TRUE
         IN Len(OccList(m, nt)) + SumLen(m, nts \ {nt})
TotalOccurrences(m) == SumLen(m, NTerms)
\* the records appended to the list of nt by the step
NewOccurrences(old, new, nt) ==
    SubSeq(OccList(new, nt), Len(OccList(old, nt)) + 1, Len(OccList(new, nt)))
Elems(seq) == {seq[k] : k \in 1..Len(seq)}
FullyWritten(k) == k \in DOMAIN files /\ files[k] = written_for[k]
IsAddTreeStep == calls' = calls + 1

\* ------------------------------------------------------------------ C1
\* C1: in every reachable state, also after an add_tree call in which a
\* chunk file could not be created or written, the size of seen_outputs
\* equals number_of_chunks and equals the number of chunk files.
C1_SizesAgree ==
    /\ Cardinality(seen_outputs) = number_of_chunks
    /\ number_of_chunks = Cardinality(DOMAIN files)

\* ------------------------------------------------------------------ C2
\* C2: after an add_tree call in which a chunk file could not be created or
\* written, seen_outputs and nts_to_chunks hold no entry for a chunk that
\* has no fully written file: every member of seen_outputs is the contents
\* of a chunk file, and there are as many occurrence records as fully
\* written files.
C2_NoHalfCommittedChunk ==
    /\ \A b \in seen_outputs : \E k \in DOMAIN files : files[k] = b
    /\ TotalOccurrences(nts_to_chunks)
         = Cardinality({k \in DOMAIN files : FullyWritten(k)})

\* ------------------------------------------------------------------ C3
\* C3: every occurrence record has a tree index smaller than the number of
\* stored trees and a node that exists in that tree, so get_alternative_to
\* never indexes out of bounds.
C3_OccurrencesValid ==
    /\ \A nt \in DOMAIN nts_to_chunks :
          \A rec \in Elems(nts_to_chunks[nt]) : ValidOccurrence(trees, rec)
    /\ last.op = "get_alternative_to" => last.kind /= "panic"

\* ------------------------------------------------------------------ C4
\* C4: an add_tree call makes trees() grow by exactly 1 when at least one
\* node's serialization was not yet in the dedup set and by 0 otherwise,
\* and a call without a novel chunk adds no occurrence record.
C4_RetainedIffNovel ==
    [][IsAddTreeStep =>
         /\ Len(trees') = Len(trees) + (IF last'.novel > 0 THEN 1 ELSE 0)
         /\ last'.novel = 0 => nts_to_chunks' = nts_to_chunks]_vars

\* ------------------------------------------------------------------ C5
\* C5: no byte string gets a second chunk file, and a node whose
\* serialization is already in the dedup set creates no file, no occurrence
\* record and no counter increase; a call in which every eligible node is
\* already in the dedup set leaves the store and the chunk files unchanged.
EligibleNodes(tree) == {i \in 0..(size(tree) - 1) : At(tree.sizes, i) <= 30}
C5_DedupIdempotence ==
    /\ [](\A j, k \in DOMAIN written_for : written_for[j] = written_for[k] => j = k)
    /\ [][IsAddTreeStep =>
            LET t == last'.tree IN
            /\ \A k \in DOMAIN files' \ DOMAIN files : written_for'[k] \notin seen_outputs
            /\ \A nt \in NTerms :
                 \A rec \in Elems(NewOccurrences(nts_to_chunks, nts_to_chunks', nt)) :
                    unparse(t, rec[2]) \notin seen_outputs
            /\ number_of_chunks' - number_of_chunks
                 <= Cardinality(seen_outputs' \ seen_outputs)
            /\ (\A i \in EligibleNodes(t) : unparse(t, i) \in seen_outputs)
                 => /\ UNCHANGED <<nts_to_chunks, seen_outputs, trees, number_of_chunks>>
                    /\ UNCHANGED files
            /\ (last.op = "add_tree" /\ ~last.panicked /\ last.tree = t)
                 => /\ UNCHANGED <<nts_to_chunks, seen_outputs, trees, number_of_chunks>>
                    /\ UNCHANGED files]_vars

\* a second call offers a tree all of whose eligible nodes are in the dedup
\* set and finds nothing new
C5_Witness ==
    /\ last.op = "add_tree"
    /\ last.novel = 0
    /\ ~last.panicked
    /\ calls = 2
    /\ EligibleNodes(last.tree) /= {}
    /\ number_of_chunks > 0

\* ------------------------------------------------------------------ C6
\* C6: the chunk files are exactly those numbered 0 .. number_of_chunks-1,
\* and a file that exists is never created again, truncated or rewritten by
\* a later add_tree call.
C6_ContiguousWriteOnce ==
    /\ [](DOMAIN files = 0..(number_of_chunks - 1))
    /\ [][\A k \in DOMAIN files : k \in DOMAIN files' /\ files'[k] = files[k]]_vars

\* a second call has added files after those of the first call
C6_Witness ==
    /\ calls = 2
    /\ last.op = "add_tree"
    /\ last.novel > 0
    /\ number_of_chunks > last.novel

\* ------------------------------------------------------------------ C7
\* C7: add_tree adds no occurrence record, no dedup entry and no file for a
\* node whose subtree has more than 30 nodes, and every occurrence record
\* refers to a subtree of at most 30 nodes.
C7_SizeCap ==
    /\ [](\A nt \in DOMAIN nts_to_chunks :
            \A rec \in Elems(nts_to_chunks[nt]) :
               ValidOccurrence(trees, rec)
                 => At(At(trees, rec[1]).sizes, rec[2]) <= 30)
    /\ [][IsAddTreeStep =>
            /\ \A nt \in NTerms :
                 \A rec \in Elems(NewOccurrences(nts_to_chunks, nts_to_chunks', nt)) :
                    At(last'.tree.sizes, rec[2]) <= 30
            /\ seen_outputs' \ seen_outputs
                 \subseteq {unparse(last'.tree, i) : i \in EligibleNodes(last'.tree)}]_vars

\* ------------------------------------------------------------------ C8
\* C8: get_alternative_to(r) never returns a (tree, node) pair whose node in
\* that stored tree is governed by rule r.
C8_AlternativeExclusivity ==
    (last.op = "get_alternative_to" /\ last.kind = "some")
      => /\ last.tid < Len(trees)
         /\ last.nid < size(At(trees, last.tid))
         /\ get_rule_id(At(trees, last.tid), last.nid) /= last.rule

\* an alternative was returned from a list that also holds an occurrence
\* governed by the rule asked for
C8_Witness ==
    /\ last.op = "get_alternative_to"
    /\ last.kind = "some"
    /\ \E rec \in Elems(OccList(nts_to_chunks, get_nt(last.rule))) :
          /\ ValidOccurrence(trees, rec)
          /\ get_rule_id(At(trees, rec[1]), rec[2]) = last.rule

\* ------------------------------------------------------------------ C9
\* C9: get_alternative_to(r) returns an empty result exactly when r's
\* nonterminal has no occurrence list or every occurrence in the list is
\* governed by r; otherwise it returns one of the recorded occurrences of
\* r's nonterminal whose rule differs from r, and every such occurrence is a
\* possible result.
GovernedBy(rec, r) ==
    ValidOccurrence(trees, rec) /\ get_rule_id(At(trees, rec[1]), rec[2]) = r
C9_AlternativeResult ==
    last.op = "get_alternative_to" =>
      LET r == last.rule
          recs == Elems(OccList(nts_to_chunks, get_nt(r)))
          empty == \A rec \in recs : GovernedBy(rec, r)
      IN /\ last.kind = "none" <=> empty
         /\ ~empty => /\ last.kind = "some"
                      /\ <<last.tid, last.nid>> \in recs
                      /\ ~GovernedBy(<<last.tid, last.nid>>, r)
         /\ \A rec \in recs :
              ~GovernedBy(rec, r) => Some(rec) \in get_alternative_to(r)

\* ------------------------------------------------------------------ C10
\* C10: whenever number_of_chunks is 0 or 1, get_chunk returns a successful
\* empty byte sequence without opening a file, never an error.
C10_EmptyChunkBound ==
    (last.op = "get_chunk" /\ number_of_chunks \in {0, 1})
      => /\ last.kind = "ok"
         /\ last.bytes = <<>>
         /\ ~last.opened

\* get_chunk was called while exactly one non-empty chunk file existed
C10_Witness ==
    /\ last.op = "get_chunk"
    /\ number_of_chunks = 1
    /\ 0 \in DOMAIN files
    /\ files[0] /= <<>>

\* ------------------------------------------------------------------ C11
\* C11: when number_of_chunks >= 2 and get_chunk succeeds, the returned
\* bytes are the full contents of one chunk file numbered below
\* number_of_chunks, and so a member of the dedup set that an earlier
\* add_tree call wrote.
C11_RoundTrip ==
    (last.op = "get_chunk" /\ last.kind = "ok" /\ number_of_chunks >= 2)
      => /\ \E k \in 0..(number_of_chunks - 1) :
               k \in DOMAIN files /\ files[k] = last.bytes
         /\ last.bytes \in seen_outputs

\* ------------------------------------------------------------------ C12
\* C12: when the chosen chunk file cannot be opened or read, get_chunk
\* returns an error value, it does not panic, and it leaves the store and
\* the chunk files as they were.
C12_ReadErrorIsRecoverable ==
    /\ [](last.op = "get_chunk" => last.kind \in {"ok", "err"})
    /\ [][(last'.op = "get_chunk" /\ last'.kind /= "ok")
            => /\ last'.kind = "err"
               /\ UNCHANGED <<nts_to_chunks, seen_outputs, trees, number_of_chunks>>
               /\ UNCHANGED files]_vars

\* get_chunk chose a file of a store with two chunks or more and could not
\* open or read it
C12_Witness ==
    /\ last.op = "get_chunk"
    /\ last.kind = "err"
    /\ number_of_chunks >= 2
    /\ last.tid \in DOMAIN files

\* ------------------------------------------------------------------ C16
\* C16: every occurrence record (t, n) under the key nt refers to a stored
\* tree t and a node n of it whose rule belongs to nt and whose subtree
\* serializes to a member of the dedup set.
C16_OccurrenceFiledUnderItsNonterminal ==
    \A nt \in DOMAIN nts_to_chunks :
       \A rec \in Elems(nts_to_chunks[nt]) :
          /\ ValidOccurrence(trees, rec)
          /\ get_rule_nonterm(At(trees, rec[1]), rec[2]) = nt
          /\ unparse(At(trees, rec[1]), rec[2]) \in seen_outputs

\* ------------------------------------------------------------------ C18
\* C18: get_alternative_to, get_chunk and trees leave the occurrence index,
\* the dedup set, the tree collection, the chunk counter and the chunk
\* files unchanged, whatever they return.
C18_QueriesAreReadOnly ==
    [][last'.op \in {"get_alternative_to", "get_chunk", "trees"}
         => /\ UNCHANGED <<nts_to_chunks, seen_outputs, trees, number_of_chunks>>
            /\ UNCHANGED files]_vars

\* a query for a nonterminal without a list has returned an empty result
\* from a store that holds chunks
C18_Witness ==
    /\ last.op = "get_alternative_to"
    /\ last.kind = "none"
    /\ get_nt(last.rule) \notin DOMAIN nts_to_chunks
    /\ number_of_chunks > 0

\* ------------------------------------------------------------------ C19
\* C19: each novel chunk contributes exactly one occurrence record, so
\* after every add_tree call that returned the number of occurrence records
\* over all keys equals number_of_chunks, and a key of nts_to_chunks never
\* has an empty list.
C19_OneOccurrencePerChunk ==
    /\ (last.op = "add_tree" /\ ~last.panicked)
         => TotalOccurrences(nts_to_chunks) = number_of_chunks
    /\ \A nt \in DOMAIN nts_to_chunks : Len(nts_to_chunks[nt]) > 0

\* ------------------------------------------------------------------ C20
\* C20: the dedup set is keyed on the bytes alone: add_tree adds no
\* occurrence record for a node whose bytes are in the dedup set or equal
\* the bytes of an eligible node of lower index in the same tree, whatever
\* the nonterminals; and get_alternative_to returns an empty result for a
\* rule whose nonterminal has no occurrence list.
C20_DedupIgnoresNonterminal ==
    /\ [](last.op = "get_alternative_to"
            /\ get_nt(last.rule) \notin DOMAIN nts_to_chunks
            => last.kind = "none")
    /\ [][IsAddTreeStep =>
            LET t == last'.tree IN
            \A nt \in NTerms :
               \A rec \in Elems(NewOccurrences(nts_to_chunks, nts_to_chunks', nt)) :
                  /\ unparse(t, rec[2]) \notin seen_outputs
                  /\ \A j \in EligibleNodes(t) :
                        j < rec[2] => unparse(t, j) /= unparse(t, rec[2])]_vars

\* a retained tree has a node of a nonterminal that has no occurrence list,
\* and get_alternative_to was asked for a rule of that nonterminal
C20_Witness ==
    /\ last.op = "get_alternative_to"
    /\ last.kind = "none"
    /\ get_nt(last.rule) \notin DOMAIN nts_to_chunks
    /\ \E k \in 1..Len(trees) :
          \E n \in 0..(size(trees[k]) - 1) :
             get_rule_nonterm(trees[k], n) = get_nt(last.rule)

\* ------------------------------------------------------------------ C13
\* C13: when the worker threads ingest trees with pairwise disjoint content
\* through the write lock, no two chunks are created under the same file
\* name, each call that returns has raised number_of_chunks by exactly the
\* number of distinct chunks of its tree, and when all calls have returned
\* number_of_chunks is the sum of these numbers.
NovelCount(tree) == Cardinality({unparse(tree, i) : i \in EligibleNodes(tree)})
RECURSIVE SumNovel(_)
SumNovel(ws) ==
    IF ws = {} THEN 0
    ELSE LET w == CHOOSE x \in ws : TRUE
         IN NovelCount(WorkerTree(w)) + SumNovel(ws \ {w})
C13_ConcurrentIngestion ==
    /\ \A j, k \in 1..Len(create_log) :
          create_log[j].file = create_log[k].file => j = k
    /\ \A w \in Workers :
          pc[w] = "done" => loc[w].n1 - loc[w].n0 = NovelCount(WorkerTree(w))
    /\ (\A w \in Workers : pc[w] = "done") => number_of_chunks = SumNovel(Workers)

\* all workers have returned, and the worker that asked with the higher
\* thread number got the lower chunk numbers
C13_Witness ==
    /\ \A w \in Workers : pc[w] = "done"
    /\ Len(create_log) = SumNovel(Workers)
    /\ create_log[1].thread = 2

\* ------------------------------------------------------------------ C14
\* C14: whenever a reader holds the read lock, every chunk counted by
\* number_of_chunks has its file fully written and its bytes in the dedup
\* set, and every occurrence record points into a stored tree; and while a
\* worker holds the write lock no reader and no other worker is inside the
\* store.
ConsistentSnapshot ==
    /\ \A k \in 0..(number_of_chunks - 1) :
          /\ FullyWritten(k)
          /\ files[k] \in seen_outputs
    /\ \A nt \in DOMAIN nts_to_chunks :
          \A rec \in Elems(nts_to_chunks[nt]) : ValidOccurrence(trees, rec)
C14_ReaderSeesNoHalfIngestion ==
    /\ lock.readers /= {} => ConsistentSnapshot
    /\ lock.writer /= 0
         => /\ lock.readers = {}
            /\ \A t \in Threads : pc[t] \in {"loop", "created"} => t = lock.writer

\* ------------------------------------------------------------------ C15
\* C15: is_locked starts false; a step that changes it changes nothing
\* else, so no store operation writes it; and read() and write() can be
\* taken exactly when the RwLock allows it, whatever the flag's value.
C15_FlagIsDecoupled ==
    /\ is_locked = FALSE
    /\ [](\A w \in Workers :
            ENABLED WriteLock(w)
              <=> (pc[w] = "idle" /\ lock.writer = 0 /\ lock.readers = {}))
    /\ [](\A r \in Readers :
            ENABLED ReadLock(r) <=> (pc[r] = "idle" /\ lock.writer = 0))
    /\ [][is_locked' /= is_locked
            => UNCHANGED <<nts_to_chunks, seen_outputs, trees, number_of_chunks,
                           files, written_for, calls, failures, last, lock, pc,
                           loc, create_log>>]_vars

\* a worker is inside add_tree, having taken the write lock, while the flag
\* is set
C15_Witness ==
    /\ is_locked
    /\ lock.writer /= 0
    /\ pc[lock.writer] = "created"

\* ------------------------------------------------------------------ C17
\* C17: within one add_tree call the chunk numbers grow with the node
\* index, and the numbers of one call form a contiguous range: no number
\* between two numbers of a call belongs to another thread's call.
C17_NumbersFollowNodeOrder ==
    \A j, k \in 1..Len(create_log) :
       /\ (create_log[j].thread = create_log[k].thread
             /\ create_log[j].node < create_log[k].node)
            => create_log[j].file < create_log[k].file
       /\ create_log[j].thread = create_log[k].thread
            => \A m \in 1..Len(create_log) :
                  (create_log[j].file < create_log[m].file
                     /\ create_log[m].file < create_log[k].file)
                    => create_log[m].thread = create_log[j].thread

\* two workers have each created two files or more
C17_Witness ==
    \E v, w \in Workers :
       /\ v /= w
       /\ Cardinality({k \in 1..Len(create_log) : create_log[k].thread = v}) >= 2
       /\ Cardinality({k \in 1..Len(create_log) : create_log[k].thread = w}) >= 2

====
